---- MODULE Spec2Model ----
(***************************************************************************)
(* A model of the steady-state operating-point solver of motor-analysis:   *)
(* simple.SimpleController.operating_point and the simulation.OperatingPoint*)
(* record it builds.                                                        *)
(*                                                                          *)
(* Numbers.  The program computes with floats.  A float is modelled as a    *)
(* pair <<n, d>>: the rational n/d in lowest terms with d > 0, or, with     *)
(* d = 0, one of the three special values NaN = <<0,0>>, +inf = <<1,0>>,    *)
(* -inf = <<-1,0>>.  In the solver arithmetic is exact (rounding is not    *)
(* modelled); numpy.sqrt is exact on squares of rationals, and the queries  *)
(* are drawn so that every square root the solver takes is of such a        *)
(* square.  models.py compares floats with ==, so its arithmetic is         *)
(* modelled with rounding: binary floats of Precision significant bits,     *)
(* round to nearest, ties to even.                                          *)
(*                                                                          *)
(* Controllers.  SimpleController.__init__ reduces a motor and a current    *)
(* waveform to eight cached floats, by numerical integration.  The model    *)
(* starts after construction: a controller is the record of those floats    *)
(* and of motor.resistance, drawn from a fixed set of records that obey the *)
(* relations the integrals guarantee.                                       *)
(*                                                                          *)
(* Specifications.  Spec: one call of operating_point on one controller.    *)
(* PairSpec: two calls with one limit each, on one controller at one speed. *)
(* LibrarySpec: the constructors and functions of simulation.py and         *)
(* models.py (OperatingPoint, CosSum, Motor, SimpleController,              *)
(* make_sin_constant, the waveforms), one call from the idle state and the  *)
(* calls that take what it returned.                                        *)
(***************************************************************************)
EXTENDS Integers, Sequences, FiniteSets, TLC

\* ---------------------------------------------------------------- bounds

\* Speeds queried: 0..MaxOmega rad/s, and the controller's max_speed().
MaxOmega == 2
\* max_torque queried: -1..MaxTorque N*m.
MaxTorque == 1
\* max_motor_current queried: -1..MaxMotorCurrent A.
MaxMotorCurrent == 1
\* max_input_power queried: 0..MaxInputPower W.
MaxInputPower == 4
\* max_voltage queried: 0..MaxVoltage V.
MaxVoltage == 2

\* ----------------------------------------------------------------- state

VARIABLES
  controller,    \* the SimpleController queried
  args,          \* the arguments of the last call of operating_point
  raised,        \* the exception the last call ended with, or NoException
  scale_limits,  \* the last call's list of candidate scales
  final_scale,   \* the last call's final scale, None if it did not get there
  kwargs,        \* what the last call passed to OperatingPoint(...), or None
  result,        \* the OperatingPoint the last call returned, or None
  previous       \* args and kwargs of the call before the last, where two
                 \* calls are compared (None elsewhere)

vars ==
  <<controller, args, raised, scale_limits, final_scale, kwargs, result,
    previous>>

\* ---------------------------------------------------------------- floats

\* Python's None (the empty tuple: no float, record or list of the model).
None == <<>>

\* The value of raised for a call that raised nothing.
NoException == "no exception"

NaN == <<0, 0>>
PosInf == <<1, 0>>
NegInf == <<-1, 0>>

Abs(n) == IF n < 0 THEN -n ELSE n

Sign(n) == IF n > 0 THEN 1 ELSE IF n < 0 THEN -1 ELSE 0

RECURSIVE GCD(_, _)
GCD(a, b) == IF b = 0 THEN a ELSE GCD(b, a % b)

\* The float n/d (d # 0) in lowest terms.
Norm(n, d) ==
  LET g == GCD(Abs(n), Abs(d))
  IN  <<Sign(d) * (n \div g), Abs(d) \div g>>

\* A Python int as a float.
F(i) == <<i, 1>>

IsNaN(x) == x = NaN

IsInf(x) == x[2] = 0 /\ x[1] # 0

FNeg(x) == <<-x[1], x[2]>>

FAdd(x, y) ==
  IF IsNaN(x) \/ IsNaN(y) THEN NaN
  ELSE IF IsInf(x) THEN (IF IsInf(y) /\ y # x THEN NaN ELSE x)
  ELSE IF IsInf(y) THEN y
  ELSE Norm(x[1] * y[2] + y[1] * x[2], x[2] * y[2])

FSub(x, y) == FAdd(x, FNeg(y))

FMul(x, y) ==
  IF IsNaN(x) \/ IsNaN(y) THEN NaN
  ELSE IF IsInf(x) \/ IsInf(y)
    THEN (IF x[1] = 0 \/ y[1] = 0 THEN NaN ELSE <<Sign(x[1]) * Sign(y[1]), 0>>)
  ELSE Norm(x[1] * y[1], x[2] * y[2])

\* numpy.float64 division: x / 0 is nan for x = 0 and +-inf otherwise.
FDiv(x, y) ==
  IF IsNaN(x) \/ IsNaN(y) THEN NaN
  ELSE IF IsInf(y) THEN (IF IsInf(x) THEN NaN ELSE F(0))
  ELSE IF IsInf(x) THEN (IF y[1] < 0 THEN FNeg(x) ELSE x)
  ELSE IF y[1] = 0 THEN (IF x[1] = 0 THEN NaN ELSE <<Sign(x[1]), 0>>)
  ELSE Norm(x[1] * y[2], x[2] * y[1])

FSquare(x) == FMul(x, x)

\* x <= y and x < y on floats: false when either side is NaN.
FLe(x, y) ==
  /\ ~IsNaN(x)
  /\ ~IsNaN(y)
  /\ IF IsInf(x) /\ IsInf(y) THEN x[1] <= y[1]
     ELSE x[1] * y[2] <= y[1] * x[2]

FLt(x, y) ==
  /\ ~IsNaN(x)
  /\ ~IsNaN(y)
  /\ IF IsInf(x) /\ IsInf(y) THEN x[1] < y[1]
     ELSE x[1] * y[2] < y[1] * x[2]

\* The largest r with r * r <= n.
ISqrt(n) == CHOOSE r \in 0..n : r * r <= n /\ n < (r + 1) * (r + 1)

\* numpy.sqrt: nan for a negative argument (and for nan), exact on the square
\* of a rational, and otherwise rounded down to a multiple of 1/d.
FSqrt(x) ==
  IF IsNaN(x) \/ x[1] < 0 THEN NaN
  ELSE IF IsInf(x) THEN x
  ELSE Norm(ISqrt(x[1] * x[2]), x[2])

\* x is a float whose numpy.sqrt the model computes exactly.
SqrtExact(x) ==
  \/ x[2] = 0
  \/ x[1] < 0
  \/ ISqrt(x[1] * x[2]) * ISqrt(x[1] * x[2]) = x[1] * x[2]

\* ----------------------------------------------------------- controllers

(* A SimpleController after __init__: motor.resistance and the cached unit   *)
(* quantities.  With g the phase current waveform and f the flux linkage:   *)
(*   unit_phase_average_torque   average of f*g                  (>= 0)      *)
(*   unit_total_rms_torque       rms of the three-phase sum of f*g           *)
(*   unit_phase_rms_torque       rms of f*g                                  *)
(*   unit_phase_average_current  average of |g|                              *)
(*   unit_total_rms_current      rms of the three-phase sum of |g|           *)
(*   unit_phase_rms_current      rms of g                                    *)
(*   max_speed                   1 / max of the line-to-line flux linkage    *)
(*   unit_voltage                the value max_circle(input_voltage) gave    *)
SinController ==
  [ resistance                 |-> F(1),
    unit_phase_average_torque  |-> F(1),
    unit_total_rms_torque      |-> F(3),
    unit_phase_rms_torque      |-> Norm(5, 4),
    unit_phase_average_current |-> Norm(1, 2),
    unit_total_rms_current     |-> F(2),
    unit_phase_rms_current     |-> F(1),
    max_speed                  |-> F(2),
    unit_voltage               |-> F(2) ]

\* A controller whose total torque is not constant over the revolution (the
\* rms of the total torque exceeds three times the phase average).
RippleController ==
  [ resistance                 |-> F(4),
    unit_phase_average_torque  |-> F(1),
    unit_total_rms_torque      |-> F(4),
    unit_phase_rms_torque      |-> Norm(3, 2),
    unit_phase_average_current |-> Norm(3, 10),
    unit_total_rms_current     |-> F(1),
    unit_phase_rms_current     |-> Norm(2, 5),
    max_speed                  |-> F(1),
    unit_voltage               |-> F(3) ]

\* A controller with a constant total torque and a low resistance.
SixStepController ==
  [ resistance                 |-> F(3),
    unit_phase_average_torque  |-> Norm(1, 3),
    unit_total_rms_torque      |-> F(1),
    unit_phase_rms_torque      |-> Norm(1, 2),
    unit_phase_average_current |-> Norm(1, 3),
    unit_total_rms_current     |-> F(1),
    unit_phase_rms_current     |-> Norm(1, 2),
    max_speed                  |-> Norm(1, 2),
    unit_voltage               |-> F(1) ]

Controllers == {SinController, RippleController, SixStepController}

\* The controller of a motor built with phase_resistance = 0 (Motor.__init__
\* checks no sign and no zero): the quantities of SinController, the voltage
\* per unit of current coming from the inductance alone.
ResistanceFreeController ==
  [ resistance                 |-> F(0),
    unit_phase_average_torque  |-> F(1),
    unit_total_rms_torque      |-> F(3),
    unit_phase_rms_torque      |-> Norm(5, 4),
    unit_phase_average_current |-> Norm(1, 2),
    unit_total_rms_current     |-> F(2),
    unit_phase_rms_current     |-> F(1),
    max_speed                  |-> F(2),
    unit_voltage               |-> F(1) ]

ResistanceFreeControllers == {ResistanceFreeController}

\* What the integrals of __init__ guarantee of the cached quantities of a
\* motor with positive resistance and a waveform that is not zero: an rms is
\* at least the average, the rms of a sum at most the sum of the rms's, and
\* (|g1| + |g2| + |g3|)^2 lies between g1^2 + g2^2 + g3^2 and three times it.
ControllerSane(self) ==
  /\ FLt(F(0), self.resistance)
  /\ FLt(F(0), self.unit_phase_average_torque)
  /\ FLe(self.unit_phase_average_torque, self.unit_phase_rms_torque)
  /\ FLe(FMul(self.unit_phase_average_torque, F(3)), self.unit_total_rms_torque)
  /\ FLe(self.unit_total_rms_torque, FMul(self.unit_phase_rms_torque, F(3)))
  /\ FLt(F(0), self.unit_phase_average_current)
  /\ FLe(self.unit_phase_average_current, self.unit_phase_rms_current)
  /\ FLe(FMul(self.unit_phase_average_current, F(3)), self.unit_total_rms_current)
  /\ FLe(FMul(FSquare(self.unit_phase_rms_current), F(3)),
         FSquare(self.unit_total_rms_current))
  /\ FLe(FSquare(self.unit_total_rms_current),
         FMul(FSquare(self.unit_phase_rms_current), F(9)))
  /\ FLt(F(0), self.max_speed)
  /\ FLt(F(0), self.unit_voltage)

max_speed(self) == self.max_speed

\* ------------------------------------------------- simulation.OperatingPoint

\* The parameters of OperatingPoint.__init__ (none has a default).
OperatingPointParams == {"omega", "motor_power", "torque"}

\* OperatingPoint(**kw): a TypeError unless the keywords are exactly the
\* parameters, else the new object.
OperatingPoint__init__(kw) ==
  IF DOMAIN kw = OperatingPointParams
  THEN [raised |-> NoException,
        self   |-> [omega       |-> kw.omega,
                    motor_power |-> kw.motor_power,
                    torque      |-> kw.torque]]
  ELSE [raised |-> "TypeError", self |-> None]

output_power(point) == FMul(point.omega, point.torque)

input_power(point) == FAdd(point.motor_power, output_power(point))

input_current(point, input_voltage) == FDiv(input_power(point), input_voltage)

efficiency(point) ==
  FDiv(output_power(point), FAdd(input_power(point), output_power(point)))

\* ------------------------------------------- SimpleController.operating_point

\* A minimum that takes the first candidate, whatever the others are.
NanMinFirst(s) == s[1]

\* numpy.nanmin of a non-empty list: the least element that is not nan, and
\* nan when every element is nan.
NanMin(s) ==
  LET nums == {i \in DOMAIN s : ~IsNaN(s[i])}
  IN  IF nums = {} THEN NaN
      ELSE s[CHOOSE i \in nums : \A j \in nums : FLe(s[i], s[j])]

\* max_torque / (self._unit_phase_average_torque * 3)
TorqueScaleLimit(self, max_torque) ==
  FDiv(max_torque, FMul(self.unit_phase_average_torque, F(3)))

\* max_motor_current / self._unit_phase_rms_current
CurrentScaleLimit(self, max_motor_current) ==
  FDiv(max_motor_current, self.unit_phase_rms_current)

\* W/A burned as heat for all phases.
unit_rms_electrical_power(self) ==
  FMul(FSquare(self.unit_total_rms_current), self.resistance)

\* W/A turned into torque for all phases.
unit_rms_mechanical_power(self, omega) ==
  FMul(self.unit_total_rms_torque, omega)

\* The argument of numpy.sqrt in the quadratic formula.
Discriminant(self, omega, max_input_power) ==
  FSub(FSquare(unit_rms_mechanical_power(self, omega)),
       FMul(FMul(F(4), unit_rms_electrical_power(self)), FNeg(max_input_power)))

\* The quadratic formula's "-" solution.
InputPowerScaleLimitOtherRoot(self, omega, max_input_power) ==
  FDiv(FSub(FNeg(unit_rms_mechanical_power(self, omega)),
            FSqrt(Discriminant(self, omega, max_input_power))),
       FMul(F(2), unit_rms_electrical_power(self)))

\* new_scale: the quadratic formula's "+" solution.
InputPowerScaleLimit(self, omega, max_input_power) ==
  FDiv(FAdd(FNeg(unit_rms_mechanical_power(self, omega)),
            FSqrt(Discriminant(self, omega, max_input_power))),
       FMul(F(2), unit_rms_electrical_power(self)))

\* A back-EMF that grows with max_speed() instead of shrinking with it.
bemf_voltageTimesMaxSpeed(self, omega) == FMul(omega, max_speed(self))

bemf_voltage(self, omega) == FDiv(omega, max_speed(self))

\* A check that also rejects a back-EMF equal to max_voltage.
BemfAssertStrict(bemf, max_voltage) == FLt(bemf, max_voltage)

\* assert bemf_voltage <= max_voltage
BemfAssert(bemf, max_voltage) == FLe(bemf, max_voltage)

\* A voltage candidate that forgets the back-EMF.
VoltageScaleLimitNoBemf(self, omega, max_voltage) ==
  FDiv(max_voltage, self.unit_voltage)

\* (max_voltage - bemf_voltage) / self._unit_voltage
VoltageScaleLimit(self, omega, max_voltage) ==
  FDiv(FSub(max_voltage, bemf_voltage(self, omega)), self.unit_voltage)

\* No check that a limit was given.
ScaleLimitsAssertSkipped(limits) == TRUE

\* assert scale_limits
ScaleLimitsAssert(limits) == limits # <<>>

\* A motor power with * 2 where the code has ** 2.
rms_motor_powerLinear(self, scale) ==
  FMul(FMul(FMul(FMul(self.unit_phase_rms_current, scale), F(2)),
            self.resistance), F(3))

rms_motor_power(self, scale) ==
  FMul(FMul(FSquare(FMul(self.unit_phase_rms_current, scale)),
            self.resistance), F(3))

rms_output_power(self, omega, scale) ==
  FMul(unit_rms_mechanical_power(self, omega), scale)

rms_input_power(self, omega, scale) ==
  FAdd(rms_output_power(self, omega, scale),
       FMul(unit_rms_electrical_power(self), FSquare(scale)))

average_motor_power(self, scale) ==
  FMul(FMul(FSquare(FMul(self.unit_phase_average_current, scale)),
            self.resistance), F(3))

\* A torque that grows with the square of the scale.
torqueQuadratic(self, scale) ==
  FMul(FMul(self.unit_phase_average_torque, FSquare(scale)), F(3))

torque(self, scale) ==
  FMul(FMul(self.unit_phase_average_torque, scale), F(3))

\* The keyword arguments of the call simulation.OperatingPoint(...).
OperatingPointKwargs(self, omega, scale) ==
  [ omega               |-> omega,
    rms_motor_power     |-> rms_motor_power(self, scale),
    rms_output_power    |-> rms_output_power(self, omega, scale),
    rms_input_power     |-> rms_input_power(self, omega, scale),
    average_motor_power |-> average_motor_power(self, scale),
    torque              |-> torque(self, scale) ]

BrakingNotSupported == "AssertionError: TODO(Brian): braking not supported yet"
NeedLimit == "AssertionError: Need to specify at least one limit"

\* scale_limits as it stands before the max_voltage block: one candidate per
\* limit that is not None, in the order torque, current, input power.
ScaleLimitsBeforeVoltage(self, a) ==
     (IF a.max_torque # None
        THEN <<TorqueScaleLimit(self, a.max_torque)>> ELSE <<>>)
  \o (IF a.max_motor_current # None
        THEN <<CurrentScaleLimit(self, a.max_motor_current)>> ELSE <<>>)
  \o (IF a.max_input_power # None
        THEN <<InputPowerScaleLimit(self, a.omega, a.max_input_power)>> ELSE <<>>)

\* scale_limits after the max_voltage block.
ScaleLimits(self, a) ==
  ScaleLimitsBeforeVoltage(self, a)
  \o (IF a.max_voltage # None
        THEN <<VoltageScaleLimit(self, a.omega, a.max_voltage)>> ELSE <<>>)

\* One run of operating_point on controller self with arguments a: the
\* exception it ends with (NoException when it returns), the locals scale_limits and
\* final_scale as far as they were assigned, the keyword arguments it passed
\* to OperatingPoint (None when it did not get there) and the value returned.
\* _unit_phase_average_torque is a Python float, so dividing by a zero one
\* raises; the other quotients are numpy.float64 divisions.
OperatingPointRun(self, a) ==
  IF a.max_torque # None /\ FMul(self.unit_phase_average_torque, F(3)) = F(0)
  THEN [raised |-> "ZeroDivisionError", scale_limits |-> <<>>,
        final_scale |-> None, kwargs |-> None, result |-> None]
  ELSE IF /\ a.max_voltage # None
          /\ ~BemfAssert(bemf_voltage(self, a.omega), a.max_voltage)
  THEN [raised |-> BrakingNotSupported,
        scale_limits |-> ScaleLimitsBeforeVoltage(self, a),
        final_scale |-> None, kwargs |-> None, result |-> None]
  ELSE IF ~ScaleLimitsAssert(ScaleLimits(self, a))
  THEN [raised |-> NeedLimit, scale_limits |-> ScaleLimits(self, a),
        final_scale |-> None, kwargs |-> None, result |-> None]
  ELSE LET scale == NanMin(ScaleLimits(self, a))
           kw == OperatingPointKwargs(self, a.omega, scale)
           made == OperatingPoint__init__(kw)
       IN  [raised |-> made.raised, scale_limits |-> ScaleLimits(self, a),
            final_scale |-> scale, kwargs |-> kw, result |-> made.self]

\* ----------------------------------------------------------------- calls

\* A limit that is not None, and how many of a call's limits are.
Supplied(limit) == limit # None

NumSupplied(a) ==
    (IF Supplied(a.max_torque) THEN 1 ELSE 0)
  + (IF Supplied(a.max_motor_current) THEN 1 ELSE 0)
  + (IF Supplied(a.max_input_power) THEN 1 ELSE 0)
  + (IF Supplied(a.max_voltage) THEN 1 ELSE 0)


Omegas(self) == {F(i) : i \in 0..MaxOmega} \cup {max_speed(self)}
Torques == {None} \cup {F(i) : i \in -1..MaxTorque}
MotorCurrents == {None} \cup {F(i) : i \in -1..MaxMotorCurrent}
InputPowers == {None} \cup {F(i) : i \in 0..MaxInputPower}
Voltages == {None} \cup {F(i) : i \in 0..MaxVoltage}

\* The arguments of a call as the record OperatingPointRun takes.
Args(omega, max_torque, max_motor_current, max_input_power, max_voltage) ==
  [omega |-> omega, max_torque |-> max_torque,
   max_motor_current |-> max_motor_current,
   max_input_power |-> max_input_power, max_voltage |-> max_voltage]

\* The calls made: every combination of a speed and of limits, each limit
\* left out (None) or given, whose square root the model takes exactly.
Queried(self, a) ==
  a.max_input_power # None
    => SqrtExact(Discriminant(self, a.omega, a.max_input_power))

\* OperatingPointRun as a table indexed by the controller and the arguments,
\* evaluated once (@@ makes TLC store a function as a table).
OperatingPointRuns ==
  [self \in Controllers |->
    [omega \in Omegas(self) |->
      [max_torque \in Torques |->
        [max_motor_current \in MotorCurrents |->
          [max_input_power \in InputPowers |->
            [max_voltage \in Voltages |->
               LET a == Args(omega, max_torque, max_motor_current,
                             max_input_power, max_voltage)
               IN  IF Queried(self, a)
                   THEN OperatingPointRun(self, a) ELSE None
            ] @@ <<>>] @@ <<>>] @@ <<>>] @@ <<>>] @@ <<>>] @@ <<>>

\* The same table for the controllers of a motor without resistance.
ResistanceFreeRuns ==
  [self \in ResistanceFreeControllers |->
    [omega \in Omegas(self) |->
      [max_torque \in Torques |->
        [max_motor_current \in MotorCurrents |->
          [max_input_power \in InputPowers |->
            [max_voltage \in Voltages |->
               LET a == Args(omega, max_torque, max_motor_current,
                             max_input_power, max_voltage)
               IN  IF Queried(self, a)
                   THEN OperatingPointRun(self, a) ELSE None
            ] @@ <<>>] @@ <<>>] @@ <<>>] @@ <<>>] @@ <<>>] @@ <<>>

Init ==
  /\ controller \in Controllers
  /\ args = None
  /\ raised = NoException
  /\ scale_limits = <<>>
  /\ final_scale = None
  /\ kwargs = None
  /\ result = None
  /\ previous = None

\* controller.operating_point(omega, max_torque, max_motor_current,
\*                            max_input_power, max_voltage)
operating_point(omega, max_torque, max_motor_current, max_input_power, max_voltage) ==
  LET run == OperatingPointRuns[controller][omega][max_torque]
                               [max_motor_current][max_input_power][max_voltage]
  IN  /\ run # None
      /\ args' = Args(omega, max_torque, max_motor_current, max_input_power,
                      max_voltage)
      /\ raised' = run.raised
      /\ scale_limits' = run.scale_limits
      /\ final_scale' = run.final_scale
      /\ kwargs' = run.kwargs
      /\ result' = run.result
      /\ UNCHANGED controller

Next ==
  \E omega \in Omegas(controller), max_torque \in Torques,
     max_motor_current \in MotorCurrents, max_input_power \in InputPowers,
     max_voltage \in Voltages :
    /\ operating_point(omega, max_torque, max_motor_current, max_input_power,
                       max_voltage)
    /\ UNCHANGED previous

Spec == Init /\ [][Next]_vars

\* The same calls on the controller of a motor without resistance.
ResistanceFreeInit ==
  /\ controller \in ResistanceFreeControllers
  /\ args = None
  /\ raised = NoException
  /\ scale_limits = <<>>
  /\ final_scale = None
  /\ kwargs = None
  /\ result = None
  /\ previous = None

\* controller.operating_point(omega, max_torque, max_motor_current,
\*                            max_input_power, max_voltage)
operating_point_resistance_free(omega, max_torque, max_motor_current, max_input_power, max_voltage) ==
  LET run == ResistanceFreeRuns[controller][omega][max_torque]
                               [max_motor_current][max_input_power][max_voltage]
  IN  /\ run # None
      /\ args' = Args(omega, max_torque, max_motor_current, max_input_power,
                      max_voltage)
      /\ raised' = run.raised
      /\ scale_limits' = run.scale_limits
      /\ final_scale' = run.final_scale
      /\ kwargs' = run.kwargs
      /\ result' = run.result
      /\ UNCHANGED controller

ResistanceFreeNext ==
  \E omega \in Omegas(controller), max_torque \in Torques,
     max_motor_current \in MotorCurrents, max_input_power \in InputPowers,
     max_voltage \in Voltages :
    /\ operating_point_resistance_free(omega, max_torque, max_motor_current,
                                       max_input_power, max_voltage)
    /\ UNCHANGED previous

ResistanceFreeSpec == ResistanceFreeInit /\ [][ResistanceFreeNext]_vars

\* ---------------------------------------------------------- pairs of calls
\* Two calls in a row on one controller, each with one limit, the way
\* simple_test.py compares stall_low with stall_high: previous keeps what the
\* earlier call was given and what it built.

LimitNames ==
  {"max_torque", "max_motor_current", "max_input_power", "max_voltage"}

\* The limits of a set and their doubles.
WithDoubles(limits) ==
  (limits \cup {FMul(F(2), l) : l \in limits \ {None}}) \ {None}

PairLimits ==
  [ max_torque        |-> WithDoubles(Torques),
    max_motor_current |-> WithDoubles(MotorCurrents),
    max_input_power   |-> WithDoubles(InputPowers),
    max_voltage       |-> WithDoubles(Voltages) ]

\* The arguments of operating_point(omega, name = limit).
OneLimit(omega, name, limit) ==
  Args(omega,
       IF name = "max_torque" THEN limit ELSE None,
       IF name = "max_motor_current" THEN limit ELSE None,
       IF name = "max_input_power" THEN limit ELSE None,
       IF name = "max_voltage" THEN limit ELSE None)

\* OperatingPointRun of the calls with one limit, as a table.
OneLimitRuns ==
  [self \in Controllers |->
    [omega \in Omegas(self) |->
      [name \in LimitNames |->
        [limit \in PairLimits[name] |->
           LET a == OneLimit(omega, name, limit)
           IN  IF Queried(self, a)
               THEN OperatingPointRun(self, a) ELSE None
        ] @@ <<>>] @@ <<>>] @@ <<>>] @@ <<>>

\* An operating_point that keeps the final scale of the call before it as one
\* more candidate of the minimum.
operating_point_one_limitKeepsScale(omega, name, limit) ==
  \E run \in {OneLimitRuns[controller][omega][name][limit]} :
    /\ run # None
    /\ \E scale \in {IF final_scale # None /\ run.final_scale # None
                      THEN NanMin(<<run.final_scale, final_scale>>)
                      ELSE run.final_scale} :
         /\ final_scale' = scale
         /\ kwargs' = IF run.kwargs = None THEN None
                      ELSE OperatingPointKwargs(controller, omega, scale)
    /\ args' = OneLimit(omega, name, limit)
    /\ raised' = run.raised
    /\ scale_limits' = run.scale_limits
    /\ result' = run.result
    /\ previous' = [args |-> args, kwargs |-> kwargs]
    /\ UNCHANGED controller

\* controller.operating_point(omega, name = limit), after an earlier call.
operating_point_one_limit(omega, name, limit) ==
  LET run == OneLimitRuns[controller][omega][name][limit]
  IN  /\ run # None
      /\ args' = OneLimit(omega, name, limit)
      /\ raised' = run.raised
      /\ scale_limits' = run.scale_limits
      /\ final_scale' = run.final_scale
      /\ kwargs' = run.kwargs
      /\ result' = run.result
      /\ previous' = [args |-> args, kwargs |-> kwargs]
      /\ UNCHANGED controller

PairNext ==
  \E omega \in Omegas(controller), name \in LimitNames :
    \E limit \in PairLimits[name] :
      operating_point_one_limit(omega, name, limit)

PairSpec == Init /\ [][PairNext]_vars

\* -------------------------------------------------------- rounded floats
\* models.py compares floats with == (the asserts of Motor.__init__ and of
\* make_sin_constant), so there the rounding of float arithmetic decides
\* what the program does.  A rounded float is a binary float with Precision
\* significant bits (numpy.float64 has 53); every operation rounds its exact
\* result to the nearest one, ties to the even significand.

\* The significant bits of a rounded float.
Precision == 4

\* The binary exponents the rounded floats of the model use.
Exponents == -12..12

Pow2(k) == 2^k

\* The positive rational qn/qd rounded to the nearest integer, ties to even.
RoundHalfEven(qn, qd) ==
  LET m == qn \div qd
      r == qn - m * qd
  IN  IF 2 * r > qd \/ (2 * r = qd /\ m % 2 = 1) THEN m + 1 ELSE m

\* |x| scaled by 2^-k, as a quotient <<numerator, denominator>>.
Scaled(x, k) ==
  <<Abs(x[1]) * Pow2(IF k < 0 THEN -k ELSE 0),
    x[2] * Pow2(IF k > 0 THEN k ELSE 0)>>

\* The exponent k at which |x| / 2^k has Precision bits before the point.
InBinade(x, k) ==
  \E s \in {Scaled(x, k)} :
    /\ Pow2(Precision - 1) * s[2] <= s[1]
    /\ s[1] < Pow2(Precision) * s[2]

\* x rounded to a whole multiple of 2^k.
RoundedAt(x, k) ==
  CHOOSE r \in {Norm(Sign(x[1]) * RoundHalfEven(s[1], s[2])
                       * Pow2(IF k > 0 THEN k ELSE 0),
                     Pow2(IF k < 0 THEN -k ELSE 0)) : s \in {Scaled(x, k)}} :
    TRUE

\* The float x, a value, rounded to Precision significant bits.
Rounded(x) ==
  IF x[2] = 0 \/ x[1] = 0 THEN x
  ELSE CHOOSE r \in {RoundedAt(x, k) : k \in {e \in Exponents : InBinade(x, e)}} :
         TRUE

\* The result x of an operation, rounded; x is evaluated once.
Fl(x) == CHOOSE r \in {Rounded(v) : v \in {x}} : TRUE

FlAdd(x, y) == Fl(FAdd(x, y))

FlSub(x, y) == Fl(FSub(x, y))

FlMul(x, y) == Fl(FMul(x, y))

FlDiv(x, y) == Fl(FDiv(x, y))

\* numpy.pi and numpy.sqrt(3): the rounded floats nearest to pi and to the
\* square root of 3.
Pi == Fl(Norm(355, 113))

Sqrt3 == Fl(Norm(97, 56))

\* -------------------------------------------------------- models.CosSum
\* A coefficient mapping {a: (b, c)} is a function from harmonic indices to
\* pairs <<b, c>> of rounded floats: amplitude and offset.

\* _offset_coeff(coeff) of a mapping that has harmonic 1.
OffsetCoeff(coeff) ==
  LET offset == FlSub(FlDiv(FNeg(Pi), F(2)), coeff[1][2])
  IN  [i \in DOMAIN coeff |-> <<coeff[i][1], FlAdd(coeff[i][2], offset)>>]

\* _offset_coeff(coeff): coeff[1] raises KeyError when there is no harmonic 1.
_offset_coeff(coeff) ==
  IF 1 \in DOMAIN coeff
  THEN [raised |-> NoException, value |-> OffsetCoeff(coeff)]
  ELSE [raised |-> "KeyError", value |-> None]

\* The line-to-line mapping CosSum.__init__ derives from a phase mapping.
LineLineFromPhase(phase_coeff) ==
  [a \in DOMAIN phase_coeff |->
     <<FlMul(phase_coeff[a][1], Sqrt3), phase_coeff[a][2]>>]

\* A phase mapping derived with / 3 where the code has / numpy.sqrt(3).
PhaseFromLineLineByThree(line_line_coeff) ==
  [a \in DOMAIN line_line_coeff |->
     <<FlDiv(line_line_coeff[a][1], F(3)), line_line_coeff[a][2]>>]

\* The phase mapping CosSum.__init__ derives from a line-to-line mapping.
PhaseFromLineLine(line_line_coeff) ==
  [a \in DOMAIN line_line_coeff |->
     <<FlDiv(line_line_coeff[a][1], Sqrt3), line_line_coeff[a][2]>>]

\* CosSum(line_line, phase).  The phase block runs first and the line_line
\* block after it, each when its argument is not None; with neither,
\* self._phase_coeff does not exist when make_function is reached.  The
\* functions phase and line_line are make_function of the two mappings.
CosSum__init__(line_line, phase) ==
  CHOOSE made \in
    { IF phase # None /\ fromPhase.raised # NoException
      THEN [raised |-> fromPhase.raised, self |-> None]
      ELSE IF line_line # None /\ fromLineLine.raised # NoException
      THEN [raised |-> fromLineLine.raised, self |-> None]
      ELSE IF line_line # None
      THEN [raised |-> NoException,
            self |-> [phase_coeff |-> PhaseFromLineLine(fromLineLine.value),
                      line_line_coeff |-> fromLineLine.value]]
      ELSE IF phase # None
      THEN [raised |-> NoException,
            self |-> [phase_coeff |-> fromPhase.value,
                      line_line_coeff |-> LineLineFromPhase(fromPhase.value)]]
      ELSE [raised |-> "AttributeError", self |-> None] :
        fromPhase \in {_offset_coeff(phase)},
        fromLineLine \in {_offset_coeff(line_line)} } : TRUE

\* ------------------------------------------------------ models waveforms
\* Angles are whole multiples of pi/12, exact: numpy.pi is 12 of them.  The
\* sectors of the waveforms start at multiples of pi/6, so every sector has
\* angles on its boundary and angles inside it.  % is Python's: the result
\* has the sign of the divisor.
AnglePi == 12

\* one_sixth = numpy.pi / 3
one_sixth == AnglePi \div 3

_trapezoid(theta) ==
  LET shifted == (theta - one_sixth \div 2) % (AnglePi * 2)
  IN  IF shifted < one_sixth * 2 THEN F(1)
      ELSE IF shifted < one_sixth * 3
      THEN FMul(FDiv(FSub(F(shifted), Norm(one_sixth * 5, 2)), F(one_sixth)),
                F(-2))
      ELSE IF shifted < one_sixth * 5 THEN F(-1)
      ELSE FMul(FDiv(FSub(F(shifted), Norm(one_sixth * 11, 2)), F(one_sixth)),
                F(2))

_trapezoid_6step(theta) ==
  LET turned == theta % (AnglePi * 2)
  IN  IF turned < one_sixth * 1 THEN Norm(1, 2)
      ELSE IF turned < one_sixth * 2 THEN F(1)
      ELSE IF turned < one_sixth * 3 THEN Norm(1, 2)
      ELSE IF turned < one_sixth * 4 THEN Norm(-1, 2)
      ELSE IF turned < one_sixth * 5 THEN F(-1)
      ELSE Norm(-1, 2)

\* A 4-step waveform whose sectors start at 0 instead of pi/6.
_trapezoid_4stepUnshifted(theta) ==
  LET shifted == theta % (AnglePi * 2)
  IN  IF shifted < one_sixth * 2 THEN F(1)
      ELSE IF shifted < one_sixth * 3 THEN F(0)
      ELSE IF shifted < one_sixth * 5 THEN F(-1)
      ELSE F(0)

_trapezoid_4step(theta) ==
  LET shifted == (theta - one_sixth \div 2) % (AnglePi * 2)
  IN  IF shifted < one_sixth * 2 THEN F(1)
      ELSE IF shifted < one_sixth * 3 THEN F(0)
      ELSE IF shifted < one_sixth * 5 THEN F(-1)
      ELSE F(0)

_square(theta) ==
  LET turned == theta % (AnglePi * 2)
  IN  IF turned < AnglePi THEN F(1) ELSE F(-1)

\* numpy.sin at the multiples of pi/12 of one turn, in thousandths.
SinThousandths ==
  <<0, 259, 500, 707, 866, 966, 1000, 966, 866, 707, 500, 259,
    0, -259, -500, -707, -866, -966, -1000, -966, -866, -707, -500, -259>>

sin(theta) == Norm(SinThousandths[(theta % (AnglePi * 2)) + 1], 1000)

\* The waveforms the module defines, by name.
Waveforms == {"trapezoid", "trapezoid_6step", "trapezoid_4step", "square", "sin"}

\* Waveform.__call__: f(theta)
Waveform__call__(f, theta) ==
  CASE f = "trapezoid" -> _trapezoid(theta)
    [] f = "trapezoid_6step" -> _trapezoid_6step(theta)
    [] f = "trapezoid_4step" -> _trapezoid_4step(theta)
    [] f = "square" -> _square(theta)
    [] f = "sin" -> sin(theta)

\* The angles, within one turn, at which a waveform compares theta with a
\* bound where its value changes: the comparison is made on floats, and an
\* angle that stands on the bound falls on either side of it according to
\* how the angle and the bound were rounded.
SectorBounds(f) ==
  CASE f = "square" -> {0, AnglePi}
    [] f = "trapezoid_6step" -> {one_sixth * i : i \in 0..5}
    [] f = "trapezoid_4step" ->
         {one_sixth \div 2 + one_sixth * i : i \in {0, 2, 3, 5}}
    [] OTHER -> {}

\* f(theta) when theta, standing on a bound, is rounded to the side given:
\* "at" is the bound itself, "below" the preceding sector (every sector is
\* wider than one angle unit).
Sampled(f, theta, side) ==
  IF side = "below" /\ (theta % (AnglePi * 2)) \in SectorBounds(f)
  THEN Waveform__call__(f, theta - 1)
  ELSE Waveform__call__(f, theta)

\* Phases a quarter turn apart, where the code has a third of a turn.
PhaseAnglesQuarterTurn(theta) ==
  <<theta, theta + AnglePi \div 2, theta - AnglePi \div 2>>

\* a_theta, b_theta, c_theta of assertConstant.all_three_raw
PhaseAngles(theta) ==
  <<theta, theta + (AnglePi * 2) \div 3, theta - (AnglePi * 2) \div 3>>

\* all_three_raw(theta) of assertConstant(f, motor), the angle of phase i
\* rounded to the side sides[i].
all_three_raw(f, motor, theta, sides) ==
  LET Term(i) == FMul(Sampled(f, PhaseAngles(theta)[i], sides[i]),
                      Sampled(motor, PhaseAngles(theta)[i], sides[i]))
  IN  FAdd(FAdd(Term(1), Term(2)), Term(3))

\* ------------------------------------------------------ models.Waveform
\* A generating function scalar_f: a library shape scaled and raised,
\* mean + amplitude * shape(theta).
Generated(g, theta) ==
  FAdd(F(g.mean), FMul(F(g.amplitude), Waveform__call__(g.shape, theta)))

\* The least of a non-empty set of floats.
LeastOf(values) == CHOOSE v \in values : \A w \in values : FLe(v, w)

\* min(self._f(numpy.linspace(0, numpy.pi * 2, 12))): twelve samples over
\* the turn, in the model the even angles.
one_sixth_min(g) ==
  LeastOf({Generated(g, 2 * i) : i \in 0..(AnglePi - 1)})

\* The angles of bounds = ((numpy.pi, numpy.pi * 2),)
SearchBounds == AnglePi..(AnglePi * 2)

\* Where scipy.optimize.minimize started at x0 = numpy.pi * 3 / 2 can end
\* within the bounds: an angle with no lower value next to it.
LocalMinima(g) ==
  {x \in SearchBounds :
     \A y \in {x - 1, x + 1} \cap SearchBounds :
       FLe(Generated(g, x), Generated(g, y))}

\* Where scipy.optimize.differential_evolution ends: a lowest angle of the
\* bounds.
GlobalMinima(g) ==
  {x \in SearchBounds :
     \A y \in SearchBounds : FLe(Generated(g, x), Generated(g, y))}

\* Waveform(scalar_f): self._min, for the angles the two searches ended at,
\* and the properties min and max; both searches are taken to succeed.
Waveform__init__(g, continuous_min, global_min) ==
  CHOOSE self \in
    { [min |-> least, max |-> FNeg(least)] :
        least \in {LeastOf({one_sixth_min(g),
                            Generated(g, continuous_min),
                            Generated(g, global_min)})} } : TRUE

\* ------------------------------------------------ models.make_sin_constant
\* sorted(coeff.keys())[0]
LowestIndex(coeff) == CHOOSE i \in DOMAIN coeff : \A j \in DOMAIN coeff : i <= j

\* A loop that runs over every harmonic, the lowest included.
NegateEveryHarmonic(coeff) ==
  [i \in DOMAIN coeff |-> <<FNeg(coeff[i][1]), coeff[i][2]>>]

\* The loop of make_sin_constant: every harmonic of sorted(coeff.keys())[1:]
\* gets the amplitude negated.
NegateAboveLowest(coeff) ==
  [i \in DOMAIN coeff |->
     IF i = LowestIndex(coeff) THEN coeff[i]
     ELSE <<FNeg(coeff[i][1]), coeff[i][2]>>]

\* make_sin_constant(coeff): the exception raised, the mapping the Waveform
\* returned is made of (CosSum.make_function of it), and the caller's
\* mapping after the call; the loop assigns into the copy dict(coeff), so
\* the caller's mapping is the one handed in.  Waveform.__init__, which
\* searches the minimum of the function numerically, is taken to succeed.
make_sin_constant(coeff) ==
  CHOOSE made \in
    { IF canonical.raised # NoException
      THEN [raised |-> canonical.raised, waveform |-> None, coeff |-> coeff]
      ELSE IF coeff # canonical.value
      THEN [raised |-> "AssertionError", waveform |-> None, coeff |-> coeff]
      ELSE IF ~(Cardinality(DOMAIN coeff) <= 2)
      THEN [raised |-> "AssertionError", waveform |-> None, coeff |-> coeff]
      ELSE [raised |-> NoException,
            waveform |-> NegateAboveLowest(coeff),
            coeff |-> coeff] :
        canonical \in {_offset_coeff(coeff)} } : TRUE

\* ---------------------------------------------------------- models.Motor
\* _RPM_TO_RAD_S = numpy.pi * 2 / 60
_RPM_TO_RAD_S == FlDiv(FlMul(Pi, F(2)), F(60))

\* The three quantities of Motor.__init__, each an if / elif / else over its
\* two forms: the phase form is taken when it is given, the line-to-line
\* form only when the phase form is not, and ValueError is raised when
\* neither is.
Resistance(a) ==
  IF a.phase_resistance # None THEN a.phase_resistance
  ELSE IF a.line_line_resistance # None
  THEN FlDiv(a.line_line_resistance, F(2))
  ELSE None

SelfInductance(a) ==
  IF a.phase_self_inductance # None THEN a.phase_self_inductance
  ELSE IF a.line_line_self_inductance # None
  THEN FlDiv(a.line_line_self_inductance, F(2))
  ELSE None

FluxLinkage(a) ==
  IF a.phase_f_coeff # None THEN CosSum__init__(None, a.phase_f_coeff)
  ELSE IF a.line_line_f_coeff # None
  THEN CosSum__init__(a.line_line_f_coeff, None)
  ELSE [raised |-> "ValueError", self |-> None]

\* The rating fields Motor.__init__ stores.
Ratings(a) ==
  [advertised_omega |->
     IF a.advertised_rpm # None
     THEN FlMul(FlMul(a.advertised_rpm, _RPM_TO_RAD_S), a.electrical_ratio)
     ELSE None,
   advertised_voltage |-> a.advertised_voltage,
   advertised_kv |->
     IF a.advertised_kv # None
     THEN FlMul(FlMul(a.advertised_kv, _RPM_TO_RAD_S), a.electrical_ratio)
     ELSE None,
   electrical_ratio |-> a.electrical_ratio]

\* The two assert statements of Motor.__init__.
FluxLinkageAsserts(f) ==
  /\ f.phase_coeff = OffsetCoeff(f.phase_coeff)
  /\ f.line_line_coeff = OffsetCoeff(f.line_line_coeff)

\* Motor(**a), a holding every keyword argument (None when left out,
\* electrical_ratio 1 when left out).
Motor__init__(a) ==
  CHOOSE made \in
    { IF Resistance(a) = None \/ SelfInductance(a) = None
      THEN [raised |-> "ValueError", self |-> None]
      ELSE IF f.raised # NoException
      THEN [raised |-> f.raised, self |-> None]
      ELSE IF ~FluxLinkageAsserts(f.self)
      THEN [raised |-> "AssertionError", self |-> None]
      ELSE [raised |-> NoException,
            self |-> [resistance |-> Resistance(a),
                      self_inductance |-> SelfInductance(a),
                      f |-> f.self] @@ Ratings(a)] :
        f \in {FluxLinkage(a)} } : TRUE

\* ----------------------------------------- simple.SimpleController.__init__
\* The quantities __init__ caches are numerical integrals over one turn; each
\* is kept as a term naming the integral and holding what its integrand
\* reads of the motor and of the waveform phase_g.  The motor's resistance
\* is read through self.motor by operating_point.  The assert statements
\* of __init__ (torque never negative, phase average a third of the total)
\* are taken to pass.
Integral(circle, integrand, reads) ==
  [circle |-> circle, integrand |-> integrand, reads |-> reads]

\* A controller whose max_speed reads the motor's electrical_ratio too.
SimpleController__init__Mechanical(motor, phase_g) ==
  [resistance |-> motor.resistance,
   unit_phase_average_torque |->
     Integral("average_circle", "phase_torque", <<motor.f.phase_coeff, phase_g>>),
   unit_total_rms_torque |->
     Integral("rms_circle", "total_torque", <<motor.f.phase_coeff, phase_g>>),
   unit_phase_rms_torque |->
     Integral("rms_circle", "phase_torque", <<motor.f.phase_coeff, phase_g>>),
   unit_phase_average_current |->
     Integral("average_circle", "abs_phase_current", <<phase_g>>),
   unit_total_rms_current |->
     Integral("rms_circle", "total_current", <<phase_g>>),
   unit_phase_rms_current |->
     Integral("rms_circle", "phase_g", <<phase_g>>),
   max_speed |->
     Integral("1 / amax", "line_line_f",
              <<motor.f.line_line_coeff, motor.electrical_ratio>>),
   unit_voltage |->
     Integral("max_circle", "input_voltage",
              <<phase_g, motor.resistance, motor.self_inductance>>)]

\* SimpleController(motor, phase_g)
SimpleController__init__(motor, phase_g) ==
  [resistance |-> motor.resistance,
   unit_phase_average_torque |->
     Integral("average_circle", "phase_torque", <<motor.f.phase_coeff, phase_g>>),
   unit_total_rms_torque |->
     Integral("rms_circle", "total_torque", <<motor.f.phase_coeff, phase_g>>),
   unit_phase_rms_torque |->
     Integral("rms_circle", "phase_torque", <<motor.f.phase_coeff, phase_g>>),
   unit_phase_average_current |->
     Integral("average_circle", "abs_phase_current", <<phase_g>>),
   unit_total_rms_current |->
     Integral("rms_circle", "total_current", <<phase_g>>),
   unit_phase_rms_current |->
     Integral("rms_circle", "phase_g", <<phase_g>>),
   max_speed |->
     Integral("1 / amax", "line_line_f", <<motor.f.line_line_coeff>>),
   unit_voltage |->
     Integral("max_circle", "input_voltage",
              <<phase_g, motor.resistance, motor.self_inductance>>)]

\* ------------------------------------------------ simulation.max_circle
\* max_circle(f) searches n = 200 windows; the model has NumWindows of them
\* and measures angles in sixths of a turn, so that the window centres
\* numpy.linspace(0, 2 pi, n) and the half width epsilon = 2 pi / n / 2 are
\* whole numbers.  f is a function on the angles of one turn, periodic.
NumWindows == 3

CircleTurn == 6

\* numpy.linspace(0, numpy.pi * 2, n)[i - 1]
WindowCentre(i) == (i - 1) * (CircleTurn \div (NumWindows - 1))

WindowEpsilon == (CircleTurn \div NumWindows) \div 2

\* f(x) for a float x: nan for nan, f at the angle otherwise.
CircleValue(f, x) == IF IsNaN(x) THEN NaN ELSE f[x[1] % CircleTurn]

\* result.x of scipy.optimize.minimize(lambda t: -f(t), x0 = (theta,),
\* bounds = ((theta - epsilon, theta + epsilon),)) when it succeeds: an
\* angle of the window at which f is largest within the window (the lowest
\* such angle).
WindowOptimum(f, theta) ==
  LET window == (theta - WindowEpsilon)..(theta + WindowEpsilon)
      best == {x \in window :
                 \A y \in window : FLe(f[y % CircleTurn], f[x % CircleTurn])}
  IN  CHOOSE x \in best : \A y \in best : x <= y

\* The array results when the loop is over: numpy.empty leaves every slot
\* uninitialized, and only the slots of the windows whose result.success
\* is true are assigned.
WindowResults(f, success, uninitialized) ==
  [i \in 1..NumWindows |->
     IF success[i] THEN F(WindowOptimum(f, WindowCentre(i)))
     ELSE uninitialized]

\* max_circle(f): f(numpy.nanmin(results)).  success[i] is result.success
\* of window i and uninitialized what numpy.empty left in the slots.
max_circle(f, success, uninitialized) ==
  [raised |-> NoException,
   results |-> WindowResults(f, success, uninitialized),
   value |-> CircleValue(f, NanMin(WindowResults(f, success, uninitialized)))]

\* --------------------------------------------- simulation.differentiate
\* The functions differentiated are polynomials c[1] + c[2] t + c[3] t^2 of
\* the angle t, and angles are counted in steps of epsilon = 2 pi / 10000,
\* so that theta + epsilon and theta - epsilon are exact.
DiffEpsilon == 1

Polynomial(c, t) ==
  FAdd(FAdd(F(c[1]), FMul(F(c[2]), F(t))), FMul(F(c[3]), FMul(F(t), F(t))))

\* _differentiate(f, theta): values = f((theta + epsilon, theta - epsilon))
\* and the quotient (values[1] - values[0]) / (epsilon * 2), indices from 0.
_differentiate(c, theta) ==
  LET values == <<Polynomial(c, theta + DiffEpsilon),
                  Polynomial(c, theta - DiffEpsilon)>>
  IN  FDiv(FSub(values[2], values[1]), F(DiffEpsilon * 2))

\* differentiate = numpy.vectorize(_differentiate, excluded = ['f']): one
\* value per angle of thetas.
differentiate(c, thetas) ==
  [i \in DOMAIN thetas |-> _differentiate(c, thetas[i])]

\* ------------------------------------------- constructors and functions
\* The constructors and functions of simulation.py and models.py, each
\* called once on arguments drawn from bounded sets: args is the call and its
\* arguments, raised the exception it ended with, result what it returned.
\* A second call may follow that takes what the first returned.

\* Offsets up to MaxOffset rad, amplitudes 1..MaxAmplitude.
MaxOffset == 15
MaxAmplitude == 3

\* The harmonics of the flux linkages of models.py and of the tests.
Harmonics == {1, 5, 7}

Amplitudes == {Fl(F(i)) : i \in 1..MaxAmplitude}

Offsets == {F(0), Fl(F(MaxOffset)), FlDiv(FNeg(Pi), F(2))}

\* The coefficient mappings with at least one harmonic.
CoeffSets ==
  UNION {[D -> Amplitudes \X Offsets] : D \in (SUBSET Harmonics) \ {{}}}

\* The mappings with harmonic 1 alone.
FundamentalSets == [{1} -> Amplitudes \X Offsets]

NotCalled == "not called"

\* No call of this section has been made.
Idle == args = None

\* point = simulation.OperatingPoint(omega, motor_power, torque)
OperatingPoint(omega, motor_power, average_torque) ==
  \E made \in {OperatingPoint__init__([omega |-> omega,
                                       motor_power |-> motor_power,
                                       torque |-> average_torque])} :
      /\ args' = [call |-> "OperatingPoint", omega |-> omega,
                  motor_power |-> motor_power, torque |-> average_torque]
      /\ raised' = made.raised
      /\ result' = made.self
      /\ UNCHANGED <<controller, scale_limits, final_scale, kwargs, previous>>

\* models.CosSum(line_line = line_line, phase = phase)
CosSum(line_line, phase) ==
  \E made \in {CosSum__init__(line_line, phase)} :
      /\ args' = [call |-> "CosSum", line_line |-> line_line, phase |-> phase]
      /\ raised' = made.raised
      /\ result' = made.self
      /\ UNCHANGED <<controller, scale_limits, final_scale, kwargs, previous>>

\* models.CosSum built from a mapping a CosSum stores, as
\* check_phase_line_line_conversions does: CosSum(line_line =
\* from_phase.line_line_coeff) and CosSum(phase = from_line_line.phase_coeff).
CosSumFromStored(form) ==
  /\ args # None
  /\ args.call = "CosSum"
  /\ raised = NoException
  /\ previous = None
  /\ IF form = "line_line"
     THEN Supplied(args.phase) /\ ~Supplied(args.line_line)
     ELSE Supplied(args.line_line) /\ ~Supplied(args.phase)
  /\ \E fed \in {[line_line |-> IF form = "line_line"
                                  THEN result.line_line_coeff ELSE None,
                    phase |-> IF form = "phase"
                              THEN result.phase_coeff ELSE None]} :
       \E made \in {CosSum__init__(fed.line_line, fed.phase)} :
         /\ previous' = [args |-> args, result |-> result]
         /\ args' = [call |-> "CosSum"] @@ fed
         /\ raised' = made.raised
         /\ result' = made.self
  /\ UNCHANGED <<controller, scale_limits, final_scale, kwargs>>

\* Keyword arguments of Motor: each quantity in its phase form, its
\* line-to-line form, both or neither, and the ratings of the motors the
\* library defines (none, rpm and voltage, kv and voltage).
UnitCoeffSets ==
  {coeff \in CoeffSets :
     Cardinality(DOMAIN coeff) = 1 /\ \A a \in DOMAIN coeff : coeff[a][1] = F(1)}

RatingSets ==
  { [advertised_rpm |-> None, advertised_voltage |-> None,
     advertised_kv |-> None, electrical_ratio |-> F(1)],
    [advertised_rpm |-> Fl(F(60)), advertised_voltage |-> F(2),
     advertised_kv |-> None, electrical_ratio |-> F(3)],
    [advertised_rpm |-> None, advertised_voltage |-> F(2),
     advertised_kv |-> Fl(F(30)), electrical_ratio |-> F(2)] }

QuantitySets ==
  [phase_resistance : {None, F(1)},
   line_line_resistance : {None, F(3)},
   phase_self_inductance : {None, F(1)},
   line_line_self_inductance : {None, F(3)},
   phase_f_coeff : {None} \cup UnitCoeffSets,
   line_line_f_coeff : {None, [a \in {1} |-> <<F(1), F(0)>>]}]

\* motor = models.Motor(**quantities, **ratings)
Motor(quantities, ratings) ==
  \E made \in {Motor__init__(quantities @@ ratings)} :
      /\ args' = [call |-> "Motor"] @@ quantities @@ ratings
      /\ raised' = made.raised
      /\ result' = made.self
      /\ UNCHANGED <<controller, scale_limits, final_scale, kwargs, previous>>

\* A second motor that differs from the one just built in its rating fields
\* alone.
MotorWithOtherRatings(ratings) ==
  /\ args # None
  /\ args.call = "Motor"
  /\ raised = NoException
  /\ previous = None
  /\ controller = None
  /\ \E field \in DOMAIN ratings : ratings[field] # args[field]
  /\ \E other \in {[field \in DOMAIN args |->
                       IF field \in DOMAIN ratings
                       THEN ratings[field] ELSE args[field]]} :
       \E made \in {Motor__init__(other)} :
         /\ previous' = [args |-> args, result |-> result]
         /\ args' = other
         /\ raised' = made.raised
         /\ result' = made.self
  /\ UNCHANGED <<controller, scale_limits, final_scale, kwargs>>

\* Waveforms handed to SimpleController as phase_g.
PhaseWaveforms == {"sin", "trapezoid"}

\* simple.SimpleController(motor, phase_g) on the two motors.
SimpleControllers(phase_g) ==
  /\ args # None
  /\ args.call = "Motor"
  /\ raised = NoException
  /\ previous # None
  /\ controller = None
  /\ controller' = SimpleController__init__(result, phase_g)
  /\ previous' = [args |-> previous.args, result |-> previous.result,
                  controller |->
                    SimpleController__init__(previous.result, phase_g)]
  /\ UNCHANGED <<args, raised, result, scale_limits, final_scale, kwargs>>

\* waveform = models.make_sin_constant(coeff)
MakeSinConstant(coeff) ==
  \E made \in {make_sin_constant(coeff)} :
      /\ args' = [call |-> "make_sin_constant", coeff |-> coeff]
      /\ raised' = made.raised
      /\ result' = [waveform |-> made.waveform, coeff |-> made.coeff]
      /\ UNCHANGED <<controller, scale_limits, final_scale, kwargs, previous>>

\* Angles of up to MaxTheta twelfths of pi.
MaxTheta == 24

\* One point of assertPeriodicSymmetric's isOddSymmetric:
\* assertFClose(f, lambda t: -f(numpy.pi * 2 - t)) compares f(theta) with
\* -f(numpy.pi * 2 - theta).
OddSymmetricPoint(f, theta) ==
  /\ args' = [call |-> "Waveform", f |-> f, theta |-> theta]
  /\ raised' = NoException
  /\ result' = [a_points |-> Waveform__call__(f, theta),
                b_points |-> FNeg(Waveform__call__(f, AnglePi * 2 - theta))]
  /\ UNCHANGED <<controller, scale_limits, final_scale, kwargs, previous>>

\* The (f, motor) pairs TestWaveforms hands to assertConstant, sin apart.
ConstantPairs ==
  { <<"trapezoid_6step", "trapezoid_6step">>,
    <<"trapezoid_4step", "trapezoid">>,
    <<"trapezoid_4step", "trapezoid_4step">> }

Sides == [1..3 -> {"at", "below"}]

\* One angle of assertConstant(f, motor): all_three_raw(theta) and
\* zero = all_three_raw(0).  At theta = 0 the two are one computation on
\* the same floats.
ConstantPoint(f, motor, theta, sides) ==
  /\ theta = 0 => sides = [i \in 1..3 |-> "at"]
  /\ args' = [call |-> "assertConstant", f |-> f, motor |-> motor,
              theta |-> theta, sides |-> sides]
  /\ raised' = NoException
  /\ result' = [all_three_raw |-> all_three_raw(f, motor, theta, sides),
                zero |-> all_three_raw(f, motor, 0, [i \in 1..3 |-> "at"])]
  /\ UNCHANGED <<controller, scale_limits, final_scale, kwargs, previous>>

\* Functions on the circle with values 0..MaxValue.
MaxValue == 2

CircleFunctions == [0..(CircleTurn - 1) -> {F(v) : v \in 0..MaxValue}]

\* What an uninitialized slot can hold: any float, of which nan, a float
\* below every angle of the search and a float above every one.
Uninitialized == {NaN, F(0 - CircleTurn), F(2 * CircleTurn)}

\* value = simulation.max_circle(f)
MaxCircle(f, success, uninitialized) ==
  \E made \in {max_circle(f, success, uninitialized)} :
    /\ args' = [call |-> "max_circle", f |-> f, success |-> success,
                uninitialized |-> uninitialized]
    /\ raised' = made.raised
    /\ result' = [results |-> made.results, value |-> made.value]
    /\ UNCHANGED <<controller, scale_limits, final_scale, kwargs, previous>>

\* Polynomials with coefficients up to MaxCoefficient in size.
MaxCoefficient == 1

Polynomials ==
  [1..3 -> (0 - MaxCoefficient)..MaxCoefficient]

\* One angle, or several as simple.py hands in.
AngleTuples ==
  {<<t>> : t \in 0..MaxOmega} \cup {<<t, t + 1, t - 1>> : t \in 0..MaxOmega}

\* values = simulation.differentiate(f, thetas)
Differentiate(c, thetas) ==
  /\ args' = [call |-> "differentiate", f |-> c, thetas |-> thetas]
  /\ raised' = NoException
  /\ result' = [values |-> differentiate(c, thetas)]
  /\ UNCHANGED <<controller, scale_limits, final_scale, kwargs, previous>>

\* Generating functions of mean up to MaxMean.
MaxMean == 1

GeneratingFunctions ==
  [shape : Waveforms, mean : 0..MaxMean, amplitude : 1..MaxAmplitude]

\* waveform = models.Waveform(scalar_f)
MakeWaveform(g, continuous_min, global_min) ==
  \E made \in {Waveform__init__(g, continuous_min, global_min)} :
    /\ args' = [call |-> "Waveform.__init__", scalar_f |-> g,
                continuous_min |-> continuous_min, global_min |-> global_min]
    /\ raised' = NoException
    /\ result' = made
    /\ UNCHANGED <<controller, scale_limits, final_scale, kwargs, previous>>

\* ------------------- simple.SimpleController.__init__: the torque average
\* The statements of __init__ up to the first sanity assert (the rest of
\* __init__ can only make construction fail later; it does not touch
\* _unit_phase_average_torque).  Values of a waveform are whole thousandths
\* and a torque is a whole number of millionths of the torque the full flux
\* develops against a current of amplitude 1; the unit of current is the
\* one that makes this torque the 1e-20 of the assert in phase_torque, so
\* that the commanded currents stand on both sides of that tolerance.
Thousandths(x) == x[1] * (1000 \div x[2])

\* 1e-20, in millionths.
TorqueTolerance == 1000 * 1000

\* r = self.motor.f(theta) * self.phase_g(theta), the commanded waveform
\* being phase_g.scale * shape(theta).
PhaseTorqueValue(motor_f, phase_g, theta) ==
  Thousandths(Waveform__call__(motor_f, theta))
    * Thousandths(Waveform__call__(phase_g.shape, theta)) * phase_g.scale

\* A phase_torque without its assert.
phase_torqueUnchecked(motor_f, phase_g, theta) ==
  [raised |-> NoException, value |-> PhaseTorqueValue(motor_f, phase_g, theta)]

\* phase_torque(theta): assert (r >= -1e-20).all(); return r
phase_torque(motor_f, phase_g, theta) ==
  [raised |-> IF PhaseTorqueValue(motor_f, phase_g, theta) >= -TorqueTolerance
              THEN NoException ELSE "AssertionError",
   value |-> PhaseTorqueValue(motor_f, phase_g, theta)]

\* An integrand f is the table of its values over the angles of one turn.
Turn == 0..(AnglePi * 2 - 1)

\* simulation.three_phases(f, theta), called by total_torque and not
\* defined in simulation.py: f(theta) + f(theta + 2 pi / 3) +
\* f(theta - 2 pi / 3).
three_phases(f, theta) ==
  f[PhaseAngles(theta)[1] % (AnglePi * 2)]
    + f[PhaseAngles(theta)[2] % (AnglePi * 2)]
    + f[PhaseAngles(theta)[3] % (AnglePi * 2)]

\* The sum of an integrand over a set of angles.
RECURSIVE SumOver(_, _)
SumOver(f, angles) ==
  IF angles = {} THEN 0
  ELSE \* one angle at a time
       LET theta == CHOOSE t \in angles : TRUE
       IN  f[theta] + SumOver(f, angles \ {theta})

\* simulation.average_circle(f): scipy.integrate.quad(f, 0, 2 pi)[0] / (2 pi),
\* a quadrature with one positive weight for every angle nodes it evaluates
\* f at.
average_circle(f, nodes) == Norm(SumOver(f, nodes), Cardinality(nodes))

\* The angles at which the quadrature evaluates its integrand: one angle in
\* every step, the steps dividing a third of a turn (what the integrand
\* total_torque adds up a third of a turn away is then evaluated as well).
QuadNodes ==
  { {(first + step * i) % (AnglePi * 2) : i \in 0..((AnglePi * 2) \div step - 1)} :
      step \in {1, 2, 4, 8}, first \in 0..7 }

\* phase_average_sane(phase, total): round(phase * 3 - total, 7) == 0
phase_average_sane(phase, total) == FSub(FMul(phase, F(3)), total) = F(0)

\* The angles phase_torque is called at: those of the quadrature, for
\* phase_torque itself and within total_torque.
Evaluated(nodes) ==
  nodes \cup UNION {{PhaseAngles(theta)[2] % (AnglePi * 2),
                      PhaseAngles(theta)[3] % (AnglePi * 2)} : theta \in nodes}

\* self._unit_phase_average_torque and the assert after it: the exception
\* raised, if any, and the average cached.
unit_phase_average_torque(motor_f, phase_g, nodes) ==
  LET Phase == [theta \in Turn |-> phase_torque(motor_f, phase_g, theta).value]
      Total == [theta \in Turn |-> three_phases(Phase, theta)]
  IN  IF \E theta \in Evaluated(nodes) :
           phase_torque(motor_f, phase_g, theta).raised # NoException
      THEN [raised |-> "AssertionError", value |-> None]
      ELSE IF ~phase_average_sane(average_circle(Phase, nodes),
                                  average_circle(Total, nodes))
      THEN [raised |-> "AssertionError", value |-> None]
      ELSE [raised |-> NoException, value |-> average_circle(Phase, nodes)]

\* Amplitudes of the commanded current: -MaxScale..MaxScale.
MaxScale == 2

\* Flux linkages motor.f and commanded waveforms phase_g.
MotorFluxes == {"sin", "trapezoid"}

CommandedWaveforms == [shape : Waveforms, scale : (0 - MaxScale)..MaxScale]

\* simple.SimpleController(motor, phase_g), as far as the torque average.
UnitPhaseAverageTorque(motor_f, phase_g, nodes) ==
  \E made \in {unit_phase_average_torque(motor_f, phase_g, nodes)} :
    /\ args' = [call |-> "SimpleController.__init__", f |-> motor_f,
                phase_g |-> phase_g, nodes |-> nodes]
    /\ raised' = made.raised
    /\ result' = [unit_phase_average_torque |-> made.value]
    /\ UNCHANGED <<controller, scale_limits, final_scale, kwargs, previous>>

LibraryInit ==
  /\ controller = None
  /\ args = None
  /\ raised = NotCalled
  /\ scale_limits = <<>>
  /\ final_scale = None
  /\ kwargs = None
  /\ result = None
  /\ previous = None

LibraryNext ==
  \/ /\ Idle
     /\ \E omega \in {F(i) : i \in 0..MaxOmega},
           motor_power \in {F(i) : i \in 0..MaxInputPower},
           average_torque \in {F(i) : i \in 0..MaxTorque} :
          OperatingPoint(omega, motor_power, average_torque)
  \/ /\ Idle
     /\ \/ \E coeff \in CoeffSets : CosSum(None, coeff)
        \/ \E coeff \in CoeffSets : CosSum(coeff, None)
        \/ \E line_line \in FundamentalSets, phase \in FundamentalSets :
             CosSum(line_line, phase)
        \/ CosSum(None, None)
  \/ \E form \in {"line_line", "phase"} : CosSumFromStored(form)
  \/ /\ Idle
     /\ \E quantities \in QuantitySets, ratings \in RatingSets :
          Motor(quantities, ratings)
  \/ \E ratings \in RatingSets : MotorWithOtherRatings(ratings)
  \/ /\ Idle
     /\ \E coeff \in CoeffSets : MakeSinConstant(coeff)
  \/ /\ Idle
     /\ \E f \in Waveforms, theta \in 0..MaxTheta : OddSymmetricPoint(f, theta)
  \/ /\ Idle
     /\ \E f \in CircleFunctions, success \in [1..NumWindows -> BOOLEAN],
           uninitialized \in Uninitialized :
          MaxCircle(f, success, uninitialized)
  \/ /\ Idle
     /\ \E c \in Polynomials, thetas \in AngleTuples : Differentiate(c, thetas)
  \/ /\ Idle
     /\ \E g \in GeneratingFunctions :
          \E continuous_min \in LocalMinima(g), global_min \in GlobalMinima(g) :
            MakeWaveform(g, continuous_min, global_min)
  \/ /\ Idle
     /\ \E pair \in ConstantPairs, theta \in 0..MaxTheta, sides \in Sides :
          ConstantPoint(pair[1], pair[2], theta, sides)
  \/ /\ Idle
     /\ \E motor_f \in MotorFluxes, phase_g \in CommandedWaveforms,
           nodes \in QuadNodes :
          UnitPhaseAverageTorque(motor_f, phase_g, nodes)
  \/ \E phase_g \in PhaseWaveforms : SimpleControllers(phase_g)

LibrarySpec == LibraryInit /\ [][LibraryNext]_vars

\* --------------------------------------------------------------- claims
\* The operating point of a call is read where operating_point builds it: the
\* keyword arguments kwargs it passes to simulation.OperatingPoint.  Whether
\* that constructor takes them is the subject of C6 alone.

NonNegative(limit) == Supplied(limit) => FLe(F(0), limit)

NonNegativeLimits(a) ==
  /\ NonNegative(a.max_torque)
  /\ NonNegative(a.max_motor_current)
  /\ NonNegative(a.max_input_power)
  /\ NonNegative(a.max_voltage)

\* omega / max_speed(), from the state alone.
BackEmf == FDiv(args.omega, controller.max_speed)

\* The call got as far as building its operating point.
Built == args # None /\ kwargs # None

\* C1: the final scale is the minimum of the candidates, one per supplied
\* limit: it is one of them and at most each of them, whichever limits were
\* supplied.
C1_FinalScaleIsMinimum ==
  (args # None /\ final_scale # None) =>
    /\ Len(scale_limits) = NumSupplied(args)
    /\ \E i \in DOMAIN scale_limits : final_scale = scale_limits[i]
    /\ \A i \in DOMAIN scale_limits : FLe(final_scale, scale_limits[i])

\* All four limits supplied, and the last candidate (voltage) governs alone.
C1_Witness ==
  /\ args # None
  /\ final_scale # None
  /\ Len(scale_limits) = 4
  /\ final_scale = scale_limits[4]
  /\ \A i \in 1..3 : FLt(scale_limits[4], scale_limits[i])

\* C2: with non-negative limits, the operating point built respects every
\* supplied limit: torque, per-phase rms current, input power (the figure
\* passed as rms_input_power, and motor power plus omega * torque as well),
\* and back-EMF plus final scale times unit voltage.
C2_LimitsRespected ==
  (Built /\ NonNegativeLimits(args)) =>
    /\ Supplied(args.max_torque) => FLe(kwargs.torque, args.max_torque)
    /\ Supplied(args.max_motor_current) =>
         FLe(FMul(controller.unit_phase_rms_current, final_scale),
             args.max_motor_current)
    /\ Supplied(args.max_input_power) =>
         /\ FLe(kwargs.rms_input_power, args.max_input_power)
         /\ FLe(FAdd(kwargs.rms_motor_power, FMul(kwargs.omega, kwargs.torque)),
                args.max_input_power)
    /\ Supplied(args.max_voltage) =>
         FLe(FAdd(BackEmf, FMul(final_scale, controller.unit_voltage)),
             args.max_voltage)

\* All four limits supplied and positive at a positive speed, the voltage
\* limit reached exactly and the torque limit not.
C2_Witness ==
  /\ Built
  /\ NumSupplied(args) = 4
  /\ FLt(F(0), args.omega)
  /\ FLt(F(0), final_scale)
  /\ FAdd(BackEmf, FMul(final_scale, controller.unit_voltage)) = args.max_voltage
  /\ FLt(kwargs.torque, args.max_torque)

\* C3: a call with no limit at all raises and builds no operating point, at
\* every speed.
C3_NoLimitRaises ==
  (args # None /\ NumSupplied(args) = 0) =>
    /\ raised = NeedLimit
    /\ kwargs = None
    /\ result = None

C3_Witness ==
  /\ args # None
  /\ NumSupplied(args) = 0
  /\ FLt(F(0), args.omega)
  /\ raised = NeedLimit

\* C4: with max_voltage supplied, a back-EMF omega / max_speed() above
\* max_voltage makes the call raise whatever the other limits are; otherwise
\* the voltage candidate is (max_voltage - back-EMF) / unit_voltage.
C4_VoltageLimit ==
  (args # None /\ Supplied(args.max_voltage)) =>
    IF FLt(args.max_voltage, BackEmf)
    THEN /\ raised = BrakingNotSupported
         /\ kwargs = None
         /\ result = None
    ELSE /\ raised # BrakingNotSupported
         /\ Len(scale_limits) = NumSupplied(args)
         /\ scale_limits[Len(scale_limits)]
              = FDiv(FSub(args.max_voltage, BackEmf), controller.unit_voltage)

\* The back-EMF check rejects a call whose torque limit alone would give the
\* smaller scale 0.
C4_Witness ==
  /\ args # None
  /\ Supplied(args.max_voltage)
  /\ FLt(args.max_voltage, BackEmf)
  /\ args.max_torque = F(0)
  /\ raised = BrakingNotSupported

\* The voltage candidate of a call the check lets through.
C4_WitnessCandidate ==
  /\ Built
  /\ Supplied(args.max_voltage)
  /\ FLt(F(0), BackEmf)
  /\ FLt(BackEmf, args.max_voltage)

\* C5 (as claimed): whenever the solver settles on a final scale, the scale
\* and the torque are not negative; limits that would make them negative end
\* in an error before that.
C5_Original ==
  (args # None /\ final_scale # None) =>
    /\ FLe(F(0), final_scale)
    /\ kwargs # None => FLe(F(0), kwargs.torque)

\* At least one limit is supplied and the back-EMF check passes.
Feasible ==
  /\ args # None
  /\ NumSupplied(args) > 0
  /\ Supplied(args.max_voltage) => FLe(BackEmf, args.max_voltage)

\* C6 (as claimed): a feasible call returns an OperatingPoint with the speed
\* echoed, torque = unit average torque * k and motor power = unit electrical
\* power * k^2 (unit electrical power being 3 * R * unit rms current^2).
C6_Original ==
  (Feasible /\ NonNegativeLimits(args)) =>
    /\ raised = NoException
    /\ result # None
    /\ result.omega = args.omega
    /\ result.torque
         = FMul(FMul(controller.unit_phase_average_torque, F(3)), final_scale)
    /\ result.motor_power
         = FMul(FMul(FMul(F(3), controller.resistance),
                     FSquare(controller.unit_phase_rms_current)),
                FSquare(final_scale))

\* Where the input-power candidate stands in scale_limits.
InputPowerIndex(a) ==
  1 + (IF Supplied(a.max_torque) THEN 1 ELSE 0)
    + (IF Supplied(a.max_motor_current) THEN 1 ELSE 0)

\* C7 (as claimed): the input-power candidate k is the non-negative root of
\* a*k^2 + b*k - max_input_power = 0 with a = 3 * R * (per-phase rms
\* current)^2 and b = unit average torque * omega.
C7_Original ==
  (args # None /\ Supplied(args.max_input_power)
     /\ Len(scale_limits) >= InputPowerIndex(args)) =>
    LET k == scale_limits[InputPowerIndex(args)]
        a == FMul(FMul(F(3), controller.resistance),
                  FSquare(controller.unit_phase_rms_current))
        b == FMul(FMul(controller.unit_phase_average_torque, F(3)), args.omega)
    IN  /\ FLe(F(0), k)
        /\ FAdd(FMul(a, FSquare(k)), FMul(b, k)) = args.max_input_power

\* C8 (as claimed): in every operating point built, the rms input power is
\* the rms motor power plus the rms output power, and the average input
\* power the average motor power plus the average output power.
C8_Original ==
  Built =>
    /\ kwargs.rms_input_power
         = FAdd(kwargs.rms_motor_power, kwargs.rms_output_power)
    /\ {"average_input_power", "average_output_power"} \subseteq DOMAIN kwargs
    /\ kwargs.average_input_power
         = FAdd(kwargs.average_motor_power, kwargs.average_output_power)

\* A limit is zero (the voltage limit at standstill).
ZeroLimit(a) ==
  \/ a.max_torque = F(0)
  \/ a.max_motor_current = F(0)
  \/ a.max_input_power = F(0)
  \/ (a.max_voltage = F(0) /\ a.omega = F(0))

\* C9: a call with a zero limit (and no negative one) at a speed the voltage
\* check allows builds the operating point with the speed echoed and torque,
\* motor power, output power, input power and input current at 1 V all 0.
C9_ZeroLimit ==
  (Feasible /\ ZeroLimit(args) /\ NonNegativeLimits(args)) =>
    /\ kwargs # None
    /\ kwargs.omega = args.omega
    /\ kwargs.torque = F(0)
    /\ kwargs.rms_motor_power = F(0)
    /\ kwargs.average_motor_power = F(0)
    /\ kwargs.rms_output_power = F(0)
    /\ kwargs.rms_input_power = F(0)
    /\ FDiv(kwargs.rms_input_power, F(1)) = F(0)
    /\ FMul(kwargs.omega, kwargs.torque) = F(0)

\* max_input_power = 0 as the only limit, at a positive speed.
C9_Witness ==
  /\ Built
  /\ NumSupplied(args) = 1
  /\ args.max_input_power = F(0)
  /\ FLt(F(0), args.omega)
  /\ kwargs.torque = F(0)

\* The free-speed query: omega = max_speed(), max_voltage = 1, nothing else.
FreeSpeedQuery ==
  /\ args # None
  /\ args.omega = controller.max_speed
  /\ args.max_voltage = F(1)
  /\ NumSupplied(args) = 1

\* C10: the free-speed query passes the back-EMF check and builds an
\* operating point with final scale 0: torque, output power and motor power
\* are 0.
C10_FreeSpeed ==
  FreeSpeedQuery =>
    /\ raised # BrakingNotSupported
    /\ kwargs # None
    /\ final_scale = F(0)
    /\ kwargs.torque = F(0)
    /\ kwargs.rms_output_power = F(0)
    /\ FMul(kwargs.omega, kwargs.torque) = F(0)
    /\ kwargs.rms_motor_power = F(0)
    /\ kwargs.average_motor_power = F(0)

C10_Witness ==
  /\ FreeSpeedQuery
  /\ kwargs # None
  /\ kwargs.omega = controller.max_speed
  /\ kwargs.torque = F(0)

\* Both calls of a pair built an operating point, at the same speed.
BothBuilt ==
  /\ previous # None
  /\ previous.kwargs # None
  /\ Built
  /\ previous.args.omega = args.omega

\* C11: of two operating points built by one controller at one speed, under
\* whatever limits, the motor power (rms, and average) of the second is that
\* of the first times the square of the ratio of their torques, the first
\* torque not being 0.
C11_PowerQuadraticInTorque ==
  (BothBuilt /\ previous.kwargs.torque # F(0)) =>
    LET ratio == FDiv(kwargs.torque, previous.kwargs.torque)
    IN  /\ kwargs.rms_motor_power
             = FMul(previous.kwargs.rms_motor_power, FSquare(ratio))
        /\ kwargs.average_motor_power
             = FMul(previous.kwargs.average_motor_power, FSquare(ratio))

\* A current-limited point after a torque-limited one with another torque,
\* at a positive speed.
C11_Witness ==
  /\ BothBuilt
  /\ FLt(F(0), args.omega)
  /\ Supplied(previous.args.max_torque)
  /\ Supplied(args.max_motor_current)
  /\ FLt(F(0), previous.kwargs.torque)
  /\ FLt(previous.kwargs.torque, kwargs.torque)

\* The second call repeats the first with its one limit, name, doubled.
Doubled(name) ==
  /\ BothBuilt
  /\ Supplied(previous.args[name])
  /\ Supplied(args[name])
  /\ args[name] = FMul(F(2), previous.args[name])

\* C12 (as claimed): doubling max_torque, max_motor_current or
\* max_input_power, the only limit, at the same speed multiplies the motor
\* power by 4.
C12_Original ==
  \A name \in {"max_torque", "max_motor_current", "max_input_power"} :
    Doubled(name) =>
      kwargs.rms_motor_power = FMul(F(4), previous.kwargs.rms_motor_power)

\* C12 (amended): doubling max_torque or max_motor_current, the only limit,
\* at the same speed multiplies the motor power by 4 and the torque by 2.
C12_TorqueOrCurrentDoubled ==
  \A name \in {"max_torque", "max_motor_current"} :
    Doubled(name) =>
      /\ kwargs.rms_motor_power = FMul(F(4), previous.kwargs.rms_motor_power)
      /\ kwargs.torque = FMul(F(2), previous.kwargs.torque)

\* max_torque doubled from a positive value at a positive speed.
C12_Witness ==
  /\ Doubled("max_torque")
  /\ FLt(F(0), previous.args.max_torque)
  /\ FLt(F(0), args.omega)
  /\ FLt(F(0), previous.kwargs.rms_motor_power)

\* The last call was call and returned.
Returned(call) ==
  /\ args # None
  /\ args.call = call
  /\ raised = NoException

\* C13 (as claimed): the efficiency of an operating point whose input power
\* is not 0 is its output power divided by its input power, the output power
\* being omega * torque and the input power motor power + output power.
C13_Original ==
  (Returned("OperatingPoint") /\ input_power(result) # F(0)) =>
    /\ output_power(result) = FMul(args.omega, args.torque)
    /\ input_power(result) = FAdd(args.motor_power, output_power(result))
    /\ efficiency(result) = FDiv(output_power(result), input_power(result))

\* C14 (as claimed): CosSum construction succeeds only with exactly one of
\* phase and line_line; with both, and with neither, it raises.
C14_Original ==
  (args # None /\ args.call = "CosSum") =>
    /\ (Supplied(args.phase) /\ Supplied(args.line_line))
         => raised # NoException
    /\ (~Supplied(args.phase) /\ ~Supplied(args.line_line))
         => raised # NoException

\* -numpy.pi / 2
MinusHalfPi == FlDiv(FNeg(Pi), F(2))

\* The last call was CosSum with one mapping: the mapping it was given and
\* the mapping it stores in the same form.
OneFormGiven(a) == Supplied(a.phase) # Supplied(a.line_line)

GivenCoeff(a) == IF Supplied(a.phase) THEN a.phase ELSE a.line_line

StoredCoeff(a, cos_sum) ==
  IF Supplied(a.phase) THEN cos_sum.phase_coeff ELSE cos_sum.line_line_coeff

\* C16 (as claimed): a CosSum built from a mapping with harmonic 1 stores,
\* in both forms, the offsets of the mapping plus one constant, harmonic 1's
\* offset being -pi/2: amplitudes and the differences between the offsets
\* are those given, and _offset_coeff leaves both stored mappings as they
\* are (what Motor.__init__ asserts).
C16_Original ==
  (Returned("CosSum") /\ OneFormGiven(args)) =>
    LET given == GivenCoeff(args)
        stored == StoredCoeff(args, result)
    IN  /\ DOMAIN result.phase_coeff = DOMAIN given
        /\ DOMAIN result.line_line_coeff = DOMAIN given
        /\ \A i \in DOMAIN given : stored[i][1] = given[i][1]
        /\ \A form \in {result.phase_coeff, result.line_line_coeff} :
             /\ form[1][2] = MinusHalfPi
             /\ \A i, j \in DOMAIN given :
                  FSub(form[i][2], form[j][2]) = FSub(given[i][2], given[j][2])
             /\ OffsetCoeff(form) = form

\* A CosSum was built from a mapping an earlier CosSum stores in the other
\* form.
RoundTrip ==
  /\ Returned("CosSum")
  /\ previous # None

\* C17 (as claimed): the line-to-line mapping of CosSum(phase = P) is its
\* phase mapping with every amplitude times sqrt(3) (and the phase mapping of
\* CosSum(line_line = L) its line-to-line mapping with every amplitude
\* divided by sqrt(3)); fed back in the other form, it gives a CosSum that
\* stores the very mapping the first one stores.
C17_Original ==
  RoundTrip =>
    LET first == previous.result
    IN  /\ Supplied(previous.args.phase) =>
             /\ first.line_line_coeff = LineLineFromPhase(first.phase_coeff)
             /\ result.phase_coeff = first.phase_coeff
        /\ Supplied(previous.args.line_line) =>
             /\ first.phase_coeff = PhaseFromLineLine(first.line_line_coeff)
             /\ result.line_line_coeff = first.line_line_coeff

FAbs(x) == IF x[1] < 0 THEN FNeg(x) ELSE x

\* x and y differ by at most k roundings of a float of the size scale.
WithinRounding(x, y, k, scale) ==
  FLe(FMul(FAbs(FSub(x, y)), F(Pow2(Precision))), FMul(F(k), scale))

\* C17 (amended): as claimed for the mapping derived at construction; fed
\* back in the other form, it gives a CosSum that stores a mapping with the
\* same harmonics whose amplitudes and offsets are those the first one
\* stores to within floating-point rounding (three roundings of the
\* amplitude, four of the offsets given), not exactly.
C17_RoundTripWithinRounding ==
  RoundTrip =>
    LET first == previous.result
        given == GivenCoeff(previous.args)
        before == StoredCoeff(previous.args, first)
        after == StoredCoeff(previous.args, result)
    IN  /\ Supplied(previous.args.phase) =>
             first.line_line_coeff = LineLineFromPhase(first.phase_coeff)
        /\ Supplied(previous.args.line_line) =>
             first.phase_coeff = PhaseFromLineLine(first.line_line_coeff)
        /\ DOMAIN after = DOMAIN before
        /\ \A a \in DOMAIN before :
             /\ WithinRounding(after[a][1], before[a][1], 3, FAbs(before[a][1]))
             /\ WithinRounding(after[a][2], before[a][2], 4,
                               FAdd(FAbs(MinusHalfPi),
                                    FAdd(FAbs(given[1][2]), FAbs(given[a][2]))))

\* A round trip from a phase mapping of two harmonics that brings back
\* another amplitude than the one stored.
C17_Witness ==
  /\ RoundTrip
  /\ Supplied(previous.args.phase)
  /\ Cardinality(DOMAIN result.phase_coeff) = 2
  /\ \E a \in DOMAIN result.phase_coeff :
       result.phase_coeff[a][1] # previous.result.phase_coeff[a][1]

\* C15 (as claimed): Motor construction raises when a quantity (resistance,
\* self-inductance, flux linkage) is given in both its phase and its
\* line-to-line form, and when it is given in neither.
C15_Original ==
  (args # None /\ args.call = "Motor") =>
    \A pair \in { <<args.phase_resistance, args.line_line_resistance>>,
                  <<args.phase_self_inductance, args.line_line_self_inductance>>,
                  <<args.phase_f_coeff, args.line_line_f_coeff>> } :
      /\ (Supplied(pair[1]) /\ Supplied(pair[2])) => raised # NoException
      /\ (~Supplied(pair[1]) /\ ~Supplied(pair[2])) => raised # NoException

\* Two motors were built that differ in rating fields alone, and a
\* controller on each with the same waveform.
TwoControllers ==
  /\ Returned("Motor")
  /\ previous # None
  /\ controller # None

\* C18: two motors that differ only in electrical_ratio, advertised_rpm,
\* advertised_voltage or advertised_kv have the same resistance, the same
\* self-inductance and the same flux-linkage coefficients, and controllers
\* built on them with the same waveform have the same max_speed() and the
\* same cached quantities and resistance, which is all operating_point reads
\* besides its arguments.
C18_RatingsNotRead ==
  (Returned("Motor") /\ previous # None) =>
    /\ result.resistance = previous.result.resistance
    /\ result.self_inductance = previous.result.self_inductance
    /\ result.f = previous.result.f
    /\ controller # None =>
         /\ max_speed(controller) = max_speed(previous.controller)
         /\ controller = previous.controller

\* Controllers on two motors of different electrical_ratio and different
\* advertised speed.
C18_Witness ==
  /\ TwoControllers
  /\ result.electrical_ratio # previous.result.electrical_ratio
  /\ result.advertised_omega # previous.result.advertised_omega
  /\ result.advertised_kv # previous.result.advertised_kv

\* A mapping is canonical when it has harmonic 1 with offset -pi/2.
Canonical(coeff) == 1 \in DOMAIN coeff /\ coeff[1][2] = MinusHalfPi

\* C19: make_sin_constant(coeff) raises when coeff has more than two
\* harmonics or is not canonical; otherwise the waveform is made of coeff
\* with the amplitude of every harmonic above the lowest index negated, the
\* lowest harmonic and every offset as given, and the caller's mapping is
\* left as it was.
C19_SinConstant ==
  (args # None /\ args.call = "make_sin_constant") =>
    IF Cardinality(DOMAIN args.coeff) > 2 \/ ~Canonical(args.coeff)
    THEN raised # NoException
    ELSE /\ raised = NoException
         /\ DOMAIN result.waveform = DOMAIN args.coeff
         /\ \A i \in DOMAIN args.coeff :
              /\ result.waveform[i][2] = args.coeff[i][2]
              /\ result.waveform[i][1] =
                   IF \E j \in DOMAIN args.coeff : j < i
                   THEN FNeg(args.coeff[i][1]) ELSE args.coeff[i][1]
         /\ result.coeff = args.coeff

\* make_sin_constant returned a waveform of two harmonics.
C19_Witness ==
  /\ Returned("make_sin_constant")
  /\ Cardinality(DOMAIN result.waveform) = 2
  /\ result.waveform # args.coeff

\* make_sin_constant raised on a canonical mapping, one of three harmonics.
C19_WitnessRaised ==
  /\ args # None /\ args.call = "make_sin_constant"
  /\ raised = "AssertionError"
  /\ Canonical(args.coeff)

\* C20 (as claimed): every waveform of the library is odd-symmetric about
\* pi at every angle, the boundaries of its sectors included:
\* f(theta) = -f(2 pi - theta).
C20_Original ==
  Returned("Waveform") => result.a_points = result.b_points

\* The angles where a step waveform jumps, in twelfths of pi within one turn:
\* square at the multiples of pi, trapezoid_6step at the multiples of pi/3,
\* trapezoid_4step at pi/6, 5 pi/6, 7 pi/6 and 11 pi/6; trapezoid and sin
\* are continuous.
Jumps(f) ==
  CASE f = "square" -> {0, 12}
    [] f = "trapezoid_6step" -> {0, 4, 8, 12, 16, 20}
    [] f = "trapezoid_4step" -> {2, 10, 14, 22}
    [] OTHER -> {}

\* C20 (amended): every waveform of the library is odd-symmetric about pi
\* at every angle where it does not jump: f(theta) = -f(2 pi - theta) for
\* trapezoid and sin at every angle, and for square, trapezoid_6step and
\* trapezoid_4step at every angle that is not a boundary between two
\* sectors of different value.
C20_OddSymmetricAwayFromJumps ==
  (Returned("Waveform") /\ (args.theta % (AnglePi * 2)) \notin Jumps(args.f)) =>
    result.a_points = result.b_points

\* A step waveform sampled inside the sector where it is 1.
C20_Witness ==
  /\ Returned("Waveform")
  /\ args.f = "trapezoid_6step"
  /\ args.theta % one_sixth # 0
  /\ result.a_points = F(1)
  /\ result.b_points = F(1)

\* C21 (as claimed): for the pairs (trapezoid_6step, trapezoid_6step),
\* (trapezoid_4step, trapezoid) and (trapezoid_4step, trapezoid_4step) the
\* sum over the three phases of current * flux is, at every angle of a turn,
\* what it is at angle 0.
C21_Original ==
  Returned("assertConstant") => result.all_three_raw = result.zero

\* One of the three phase angles stands on a bound between two sectors of
\* the current waveform or of the flux waveform.
OnSectorBound(a) ==
  \E i \in 1..3 :
    (PhaseAngles(a.theta)[i] % (AnglePi * 2))
      \in SectorBounds(a.f) \cup SectorBounds(a.motor)

\* C21 (amended): for the three pairs the sum over the three phases of
\* current * flux is what it is at angle 0 at every angle of a turn for which
\* none of the three phase angles stands on a bound between two sectors.
C21_ConstantAwayFromBounds ==
  (Returned("assertConstant") /\ ~OnSectorBound(args)) =>
    result.all_three_raw = result.zero

\* The 4-step current against the trapezoid flux, sampled where one phase is
\* on the ramp of the trapezoid.
C21_Witness ==
  /\ Returned("assertConstant")
  /\ ~OnSectorBound(args)
  /\ args.f = "trapezoid_4step"
  /\ args.motor = "trapezoid"
  /\ \E i \in 1..3 :
       Waveform__call__("trapezoid", PhaseAngles(args.theta)[i])
         \notin {F(1), F(-1)}

\* The windows whose optimizer reported success.
Succeeded(a) == {i \in 1..NumWindows : a.success[i]}

\* C22 (as claimed): when every window's optimizer succeeds, max_circle
\* returns f at the candidate where f is largest: the value returned is at
\* least f at every window's candidate.
C22_Original ==
  (Returned("max_circle") /\ Succeeded(args) = 1..NumWindows) =>
    \A i \in 1..NumWindows :
      FLe(CircleValue(args.f, result.results[i]), result.value)

\* C23 (as claimed): a window whose optimizer failed contributes no
\* candidate, so the value returned is the one selected among the
\* candidates of the windows that succeeded, whatever its slot holds; and
\* when every window failed max_circle raises instead of returning a value.
C23_Original ==
  (args # None /\ args.call = "max_circle") =>
    /\ Succeeded(args) = {} => raised # NoException
    /\ (Succeeded(args) # {} /\ raised = NoException) =>
         \E i \in Succeeded(args) :
           /\ result.value = CircleValue(args.f, result.results[i])
           /\ \A j \in Succeeded(args) :
                FLe(result.results[i], result.results[j])

\* C24 (as claimed): differentiate(f, thetas) holds, for every angle theta
\* handed in, the central difference
\* (f(theta + eps) - f(theta - eps)) / (2 eps); for f(t) = t that is +1.
C24_Original ==
  Returned("differentiate") =>
    /\ DOMAIN result.values = DOMAIN args.thetas
    /\ \A i \in DOMAIN args.thetas :
         result.values[i] =
           FDiv(FSub(Polynomial(args.f, args.thetas[i] + DiffEpsilon),
                     Polynomial(args.f, args.thetas[i] - DiffEpsilon)),
                F(DiffEpsilon * 2))
    /\ args.f = <<0, 1, 0>> =>
         \A i \in DOMAIN result.values : result.values[i] = F(1)

\* C25 (as claimed): the max of a Waveform is the largest value of its
\* generating function over one period and its min the least, also when the
\* function is not odd-symmetric (non-zero mean).
C25_Original ==
  Returned("Waveform.__init__") =>
    \A theta \in 0..(AnglePi * 2 - 1) :
      /\ FLe(result.min, Generated(args.scalar_f, theta))
      /\ FLe(Generated(args.scalar_f, theta), result.max)


\* ------------------------------------------------------------------- C26
\* The voltage left for the windings once the back-EMF is taken off
\* max_voltage.
Headroom(self, a) == FSub(a.max_voltage, bemf_voltage(self, a.omega))

\* A call at a speed above zero that was given max_voltage, passed the
\* back-EMF check with headroom left and built its operating point.
VoltageQueryAtSpeed ==
  /\ Built
  /\ Supplied(args.max_voltage)
  /\ FLt(F(0), args.omega)
  /\ FLt(F(0), Headroom(controller, args))

\* C26: the voltage needed per unit of current grows with the speed (the
\* inductive drop is scaled by omega), so the voltage candidate of a call at
\* a speed above zero is strictly below the candidate a call at omega = 0
\* gets from the same headroom max_voltage - back-EMF.
C26_Original ==
  VoltageQueryAtSpeed =>
    FLt(scale_limits[Len(scale_limits)],
        VoltageScaleLimit(controller, F(0), Headroom(controller, args)))


\* ------------------------------------------------------------------- C27
\* What a call leaves behind, as one tuple.
Outcome(run) ==
  <<run.raised, run.scale_limits, run.final_scale, run.kwargs, run.result>>

\* The outcome of each call with one limit made as the first call on a
\* controller just constructed, as a table.
FirstCalls ==
  [self \in Controllers |->
    [a \in {OneLimit(omega, name, limit) :
              omega \in Omegas(self),
              name \in LimitNames,
              limit \in UNION {PairLimits[n] : n \in LimitNames}} |->
       IF Queried(self, a) THEN Outcome(OperatingPointRun(self, a)) ELSE None
    ] @@ <<>>] @@ <<>>

SamePowerFaster ==
  /\ previous # None
  /\ previous.kwargs # None
  /\ Built
  /\ FLt(F(0), controller.unit_phase_average_torque)
  /\ FLt(F(0), controller.unit_total_rms_torque)
  /\ NumSupplied(previous.args) = 1
  /\ NumSupplied(args) = 1
  /\ Supplied(args.max_input_power)
  /\ previous.args.max_input_power = args.max_input_power
  /\ FLt(F(0), args.max_input_power)
  /\ FLt(previous.args.omega, args.omega)

\* C28: with max_input_power = P > 0 as the only limit, the power-limited
\* scale strictly decreases when the speed (the mechanical-power coefficient)
\* grows: the motor power (rms, and average) and the torque at the higher
\* speed are strictly below those at the lower speed, omega = 0 included.
C28_PowerLimitedFallsWithSpeed ==
  SamePowerFaster =>
    /\ FLt(kwargs.rms_motor_power, previous.kwargs.rms_motor_power)
    /\ FLt(kwargs.average_motor_power, previous.kwargs.average_motor_power)
    /\ FLt(kwargs.torque, previous.kwargs.torque)

\* A stalled call followed by a call at a speed above zero.
C28_Witness ==
  /\ SamePowerFaster
  /\ previous.args.omega = F(0)
  /\ FLt(F(0), kwargs.rms_motor_power)


\* ------------------------------------------------------------------- C29
\* A float that is a number: neither nan nor an infinity.
Finite(x) == ~IsNaN(x) /\ ~IsInf(x)

\* A call that got past the asserts with max_input_power >= 0 among its
\* limits, at a speed omega >= 0.
PowerQuery ==
  /\ args # None
  /\ final_scale # None
  /\ Supplied(args.max_input_power)
  /\ FLe(F(0), args.max_input_power)
  /\ FLe(F(0), args.omega)

\* C29 (as claimed): for every motor, one with resistance = 0 included, the
\* input-power candidate is a finite number >= 0, and no nan is among the
\* candidates the minimum is taken of, nor is the final scale nan.
C29_Original ==
  PowerQuery =>
    /\ Finite(scale_limits[InputPowerIndex(args)])
    /\ FLe(F(0), scale_limits[InputPowerIndex(args)])
    /\ \A i \in DOMAIN scale_limits : ~IsNaN(scale_limits[i])
    /\ ~IsNaN(final_scale)


\* ------------------------------------------------------------------- C30
\* The torque of the last controller's phase at an angle it was evaluated at.
TorqueAt(theta) == PhaseTorqueValue(args.f, args.phase_g, theta)

TorqueChecked == args # None /\ args.call = "SimpleController.__init__"

\* C30 (as claimed): construction asserts that the per-phase torque is not
\* negative at any angle evaluated: a waveform that opposes the flux linkage
\* at an evaluated angle makes it fail, and every controller constructed has
\* a unit per-phase average torque >= 0.
C30_Original ==
  TorqueChecked =>
    /\ (\E theta \in Evaluated(args.nodes) : TorqueAt(theta) < 0)
         => raised = "AssertionError"
    /\ raised = NoException => FLe(F(0), result.unit_phase_average_torque)

\* C30 (amended): the assert lets through a torque down to -1e-20.  A
\* waveform whose torque is below -1e-20 at an evaluated angle makes
\* construction fail, and every controller constructed has a torque of at
\* least -1e-20 at every angle evaluated and on average.
C30_TorqueAboveTolerance ==
  TorqueChecked =>
    /\ (\E theta \in Evaluated(args.nodes) : TorqueAt(theta) < -TorqueTolerance)
         => raised = "AssertionError"
    /\ raised = NoException =>
         /\ \A theta \in Evaluated(args.nodes) :
              TorqueAt(theta) >= -TorqueTolerance
         /\ FLe(F(-TorqueTolerance), result.unit_phase_average_torque)

\* A controller constructed although its waveform opposes the flux linkage,
\* within the tolerance, and its average torque is negative.
C30_Witness ==
  /\ TorqueChecked
  /\ raised = NoException
  /\ \E theta \in Evaluated(args.nodes) : TorqueAt(theta) < 0
  /\ FLt(result.unit_phase_average_torque, F(0))

\* A construction the assert stops at one angle though the torque is not
\* negative at another, and one it lets through with a positive average.
C30_WitnessRaised ==
  /\ TorqueChecked
  /\ raised = "AssertionError"
  /\ \E theta \in Evaluated(args.nodes) : TorqueAt(theta) < -TorqueTolerance
  /\ \E theta \in Evaluated(args.nodes) : TorqueAt(theta) >= 0

C30_WitnessPositive ==
  /\ TorqueChecked
  /\ raised = NoException
  /\ args.phase_g.shape = "sin"
  /\ args.f = "sin"
  /\ FLt(F(0), result.unit_phase_average_torque)

====
